---- MODULE Spec2Model ----
(***************************************************************************)
(* The assessment job state machine of baseer-backend.                     *)
(*                                                                         *)
(* One row of the 'assessments' table (one assessment id) is modelled,     *)
(* together with the submit handler (app/api/routes.py), the background    *)
(* runs of DamageProcessor.process_assessment that the handler queues, the *)
(* status endpoint, and the module-level YOLO model cache of               *)
(* app/utils/model_loader.py that all runs share.                          *)
(*                                                                         *)
(* A Python dict is a TLA+ function whose DOMAIN is the set of keys that   *)
(* are present; a column that is NULL is a key that is absent.             *)
(* Every call on the Supabase client and every awaited external operation  *)
(* is one step of a run, so runs interleave at those points.               *)
(* Supabase is taken to be configured (config.SUPABASE_URL and             *)
(* config.SUPABASE_SERVICE_KEY set), the row of the id exists.             *)
(***************************************************************************)
EXTENDS Integers, Sequences, FiniteSets, TLC

\* ------------------------------------------------------------------ bounds
MaxDbFaults == 3         \* single run: calls on the record store that raise
MaxEnvFaults == 2        \* single run: downloads, constructions, photo computations that raise
MaxPolls == 2            \* single run: status requests
MaxSubmits == 2          \* overlapping runs: submit requests for the id
MaxPhotosShared == 1     \* overlapping runs: photo urls per request
MaxDbFaultsShared == 0   \* overlapping runs: calls on the record store that raise
MaxEnvFaultsShared == 1  \* overlapping runs: other external failures
MaxPollsShared == 1      \* overlapping runs: status requests
MaxMissingShared == 1    \* overlapping runs: model files not yet on the local disk
MaxBoxes == 4            \* consensus: detections of all damage models on one photo
MaxHandleBoxes == 1      \* scale: detections of the handle model on one photo
MaxComponentBoxes == 2   \* scale: detections of the component model on one photo
MaxItems == 3            \* paint: consensus items of one photo
MaxTireBoxes == 2        \* paint: tire boxes of one photo
MaxCostPhotos == 3       \* costs: photos of one assessment

\* ------------------------------------------------------- program constants
MAX_PHOTOS_PER_ASSESSMENT == 10
REQUIRED_MODELS == 7
PROGRESS_INITIALIZING == 5
PROGRESS_LOADING == 10
PROGRESS_PHOTOS_SPAN == 80
PROGRESS_COSTS == 85
PROGRESS_PDF == 88
PROGRESS_SAVING == 92
PROGRESS_DONE == 100
PROGRESS_FALLBACK_PROCESSING == 50

MODEL_PATHS == 1 .. REQUIRED_MODELS
Runs == 1 .. MaxSubmits

VARIABLES
    rec,        \* the row of the assessment: a dict of its non-null columns
    run,        \* run[r]: the background run queued by the r-th accepted submit
    cache,      \* _models_cache: model name -> the model object (named by its constructor)
    files,      \* model names whose weights file exists on the local disk
    inits,      \* inits[m]: how many times YOLO(model_path) was constructed for m
    dbFaults,   \* store calls that raised so far
    envFaults,  \* other external failures so far
    polled,     \* the last response of get_assessment_status, <<>> before the first
    polls,      \* status requests so far
    submitted,  \* accepted submit requests so far
    quota,      \* the scenario: the limits on submits, photos, failures and polls
    call,       \* the call of a pure function under evaluation: its name and arguments
    result      \* what that call returned, NoResult before it returns

vars == <<rec, run, cache, files, inits, dbFaults, envFaults, polled, polls, submitted, quota,
          call, result>>

\* ------------------------------------------------------------- dict helpers
EmptyDict == [k \in {} |-> TRUE]

\* {**a, **b}
Merge(a, b) == [k \in DOMAIN a \cup DOMAIN b |-> IF k \in DOMAIN b THEN b[k] ELSE a[k]]

\* d.get(k, default)
Get(d, k, default) == IF k \in DOMAIN d THEN d[k] ELSE default

\* --------------------------------------------------------------- fault model
Bit(b) == IF b THEN 1 ELSE 0

\* the outcomes of one read and one write on the store: TRUE = the call raises
DbOutcomes == {o \in [read : BOOLEAN, write : BOOLEAN] :
                  dbFaults + Bit(o.read) + Bit(o.write) <= quota.db}

EnvFaultLeft == envFaults < quota.env

EnvOutcomes == IF EnvFaultLeft THEN BOOLEAN ELSE {FALSE}

\* -------------------------------------------------------- the record store
\* supabase.table('assessments').update(update_data).eq('id', id).execute():
\* the columns named in update_data are replaced, the others are kept; a JSON
\* column such as metadata is replaced as a whole.
TableUpdate(row, update_data) == Merge(row, update_data)

\* DamageProcessor._update_status(assessment_id, status, message, progress).
\* message = "" stands for a falsy message (None or the empty string);
\* progress is <<>> for None and <<p>> for the integer p.
\* readFails / writeFails: the select / the update on the store raises.
update_status_written(row, status, message, progress, readFails) ==
    LET new_metadata ==
            Merge(IF message # "" THEN [message |-> message] ELSE EmptyDict,
                  IF progress # <<>> THEN [progress |-> progress[1]] ELSE EmptyDict)
        existing_metadata == row.metadata
        metadata ==
            IF ~readFails /\ DOMAIN existing_metadata # {}
                THEN Merge(existing_metadata, new_metadata)
                ELSE new_metadata
    IN  IF DOMAIN new_metadata # {}
            THEN [status |-> status, metadata |-> metadata]
            ELSE [status |-> status]

update_status(row, status, message, progress, readFails, writeFails) ==
    IF writeFails
        THEN row
        ELSE TableUpdate(row, update_status_written(row, status, message, progress, readFails))

\* routes.get_assessment_status: the response computed from the row.
\* error and estimated_cost are <<>> for None and <<v>> for the value v.
get_assessment_status(row) ==
    LET status == row.status
        metadata == row.metadata
        message == Get(metadata, "message", "")
        error == IF status = "failed"
                    THEN (IF "error" \in DOMAIN metadata /\ metadata.error # ""
                             THEN <<metadata.error>>
                             ELSE IF message # "" THEN <<message>>
                             ELSE <<"Processing failed">>)
                    ELSE <<>>
        stored == Get(metadata, "progress", 0)
        progress == IF stored = 0
                       THEN (IF status = "processing" THEN PROGRESS_FALLBACK_PROCESSING
                             ELSE IF status = "completed" THEN PROGRESS_DONE
                             ELSE 0)
                       ELSE stored
        estimated_cost == IF status = "completed" /\ "estimated_cost" \in DOMAIN row
                             THEN <<row.estimated_cost>> ELSE <<>>
        currency == IF status = "completed" /\ "currency" \in DOMAIN row
                       THEN <<row.currency>> ELSE <<>>
    IN  [status |-> status, progress |-> progress, error |-> error,
         estimated_cost |-> estimated_cost, currency |-> currency]

\* ------------------------------------------------------------------- runs
\* no pure function is under evaluation while the job machine runs
NoCall == [fn |-> "none"]
NoResult == [returned |-> FALSE]

\* photo_failed records that a download or the computation of a photo raised,
\* pdf_raised that _generate_and_upload_pdfs caught an exception
IdleRun == [pc |-> "idle", n |-> 0, i |-> 0, paths |-> 0, k |-> 0,
            models |-> EmptyDict, err |-> "", pdf |-> FALSE, photo_failed |-> FALSE,
            pdf_raised |-> FALSE]

\* the messages an exception raised by the processing of a photo may carry
PhotoErrors == {"", "cannot identify image file"}

Started(r) == run[r].pc \notin {"idle", "queued"}

\* the metadata the caller's app stored when it created the row
InitialMetadata == {EmptyDict, [customer_name |-> "Client A", country |-> "JO"]}

InitWith(q, disks) ==
    /\ \E m \in InitialMetadata : rec = [status |-> "pending", metadata |-> m]
    /\ run = [r \in Runs |-> IdleRun]
    /\ cache = EmptyDict
    /\ files \in disks
    /\ inits = [m \in MODEL_PATHS |-> 0]
    /\ dbFaults = 0
    /\ envFaults = 0
    /\ polled = <<>>
    /\ polls = 0
    /\ submitted = 0
    /\ quota = q
    /\ call = NoCall
    /\ result = NoResult

\* several submit requests for the id, runs may overlap
Init == InitWith([submits |-> MaxSubmits, photos |-> MaxPhotosShared,
                  db |-> MaxDbFaultsShared, env |-> MaxEnvFaultsShared,
                  polls |-> MaxPollsShared],
                 {MODEL_PATHS \ (1 .. missing) : missing \in 0 .. MaxMissingShared})

\* one submit request, any number of photos up to the configured maximum
InitOne == InitWith([submits |-> 1, photos |-> MAX_PHOTOS_PER_ASSESSMENT,
                     db |-> MaxDbFaults, env |-> MaxEnvFaults, polls |-> MaxPolls],
                    {{}, MODEL_PATHS})

\* routes.process_assessment with a request that passes validation: the status
\* write (its exception is swallowed), then the background task is queued.
Submit ==
    /\ submitted < quota.submits
    /\ \E n \in 1 .. quota.photos, o \in DbOutcomes :
          /\ o.read = FALSE
          /\ rec' = IF o.write THEN rec
                    ELSE TableUpdate(rec, [status |-> "processing",
                                           metadata |-> [message |-> "Processing started",
                                                         progress |-> 0]])
          /\ dbFaults' = dbFaults + Bit(o.write)
          /\ run' = [run EXCEPT ![submitted + 1] = [IdleRun EXCEPT !.pc = "queued", !.n = n]]
    /\ submitted' = submitted + 1
    /\ UNCHANGED <<cache, files, inits, envFaults, polled, polls, quota, call, result>>

\* one call of _update_status by run r at position from, continuing at to
StatusStep(r, from, status, message, progress, to) ==
    /\ run[r].pc = from
    /\ \E o \in DbOutcomes :
          /\ rec' = update_status(rec, status, message, progress, o.read, o.write)
          /\ dbFaults' = dbFaults + Bit(o.read) + Bit(o.write)
    /\ run' = [run EXCEPT ![r].pc = to]
    /\ UNCHANGED <<cache, files, inits, envFaults, polled, polls, submitted, quota, call, result>>

\* process_assessment line 56: the background task starts
UpdateInitializing(r) ==
    StatusStep(r, "queued", "processing", "Initializing...", <<PROGRESS_INITIALIZING>>,
               "upd_loading")

\* process_assessment line 60
UpdateLoadingModels(r) ==
    /\ run[r].pc = "upd_loading"
    /\ \E o \in DbOutcomes :
          /\ rec' = update_status(rec, "processing", "Loading AI models...",
                                  <<PROGRESS_LOADING>>, o.read, o.write)
          /\ dbFaults' = dbFaults + Bit(o.read) + Bit(o.write)
    /\ run' = [run EXCEPT ![r].pc = "load_models", ![r].i = 1]
    /\ UNCHANGED <<cache, files, inits, envFaults, polled, polls, submitted, quota, call, result>>

\* ------------------------------------------------------------ load_models
\* the loop of load_models moves to the next entry of config.MODEL_PATHS, and
\* returns to load_models_if_needed / process_assessment after the last one
NextModel(r, models) ==
    [run[r] EXCEPT !.models = models,
                   !.i = @ + 1,
                   !.pc = IF run[r].i + 1 > REQUIRED_MODELS THEN "check_models"
                          ELSE "load_models"]

\* model_loader.load_models lines 84-92: YOLO(model_path) by run r for model m;
\* ok = the constructor returns. The object is named by the run that built it.
Construct(r, m, ok) ==
    IF ok
        THEN /\ cache' = Merge(cache, [x \in {m} |-> r])
             /\ inits' = [inits EXCEPT ![m] = @ + 1]
             /\ run' = [run EXCEPT ![r] = NextModel(r, Merge(run[r].models, [x \in {m} |-> r]))]
        ELSE /\ UNCHANGED <<cache, inits>>
             /\ run' = [run EXCEPT ![r] = NextModel(r, run[r].models)]

\* load_models lines 69-92 for the entry run r is at, up to the await of the
\* download: reuse the cached object, or start the download when the file is
\* missing, or construct the model from the local file.
LoadModel(r) ==
    /\ run[r].pc = "load_models"
    /\ LET m == run[r].i IN
          IF m \in DOMAIN cache
             THEN /\ run' = [run EXCEPT ![r] = NextModel(r, Merge(run[r].models,
                                                               [x \in {m} |-> cache[m]]))]
                  /\ UNCHANGED <<cache, inits, envFaults>>
          ELSE IF m \notin files
             THEN /\ run' = [run EXCEPT ![r].pc = "download_model"]
                  /\ UNCHANGED <<cache, inits, envFaults>>
          ELSE \E fails \in EnvOutcomes :
                  /\ Construct(r, m, ~fails)
                  /\ envFaults' = envFaults + Bit(fails)
    /\ UNCHANGED <<rec, files, dbFaults, polled, polls, submitted, quota, call, result>>

\* download_model_from_supabase returns (lines 15-56, 78-81), then lines 84-92
DownloadModel(r) ==
    /\ run[r].pc = "download_model"
    /\ LET m == run[r].i IN
          \/ /\ EnvFaultLeft          \* the download fails: skipped
             /\ envFaults' = envFaults + 1
             /\ run' = [run EXCEPT ![r] = NextModel(r, run[r].models)]
             /\ UNCHANGED <<cache, inits, files>>
          \/ /\ files' = files \cup {m}
             /\ \E fails \in EnvOutcomes :
                  /\ Construct(r, m, ~fails)
                  /\ envFaults' = envFaults + Bit(fails)
    /\ UNCHANGED <<rec, dbFaults, polled, polls, submitted, quota, call, result>>

ModelsError(models) ==
    "Failed to load YOLO models. Missing: " \o ToString(MODEL_PATHS \ DOMAIN models)

\* process_assessment lines 63-68
CheckModels(r) ==
    /\ run[r].pc = "check_models"
    /\ run' = [run EXCEPT ![r] =
                  IF Cardinality(DOMAIN run[r].models) < REQUIRED_MODELS
                     THEN [@ EXCEPT !.pc = "except", !.err = ModelsError(run[r].models)]
                     ELSE [@ EXCEPT !.pc = "download_photos", !.i = 1, !.paths = 0]]
    /\ UNCHANGED <<rec, cache, files, inits, dbFaults, envFaults, polled, polls, submitted, quota, call, result>>

\* --------------------------------------------------------------- the photos
\* _download_photos lines 404-416 for url i, and lines 76-77 after the last url:
\* a download that raises is skipped.
DownloadPhoto(r) ==
    /\ run[r].pc = "download_photos"
    /\ \E fails \in EnvOutcomes :
          LET paths == run[r].paths + Bit(~fails)
              last == run[r].i = run[r].n
          IN  /\ envFaults' = envFaults + Bit(fails)
              /\ run' = [run EXCEPT ![r] =
                            [@ EXCEPT !.paths = paths,
                                      !.photo_failed = @ \/ fails,
                                      !.i = @ + 1,
                                      !.pc = IF ~last THEN "download_photos"
                                             ELSE IF paths = 0 THEN "except"
                                             ELSE "upd_photos",
                                      !.err = IF last /\ paths = 0
                                                 THEN "Failed to download photos" ELSE @]]
    /\ UNCHANGED <<rec, cache, files, inits, dbFaults, polled, polls, submitted, quota, call, result>>

\* process_assessment line 95: no progress argument
UpdateProcessingPhotos(r) ==
    /\ run[r].pc = "upd_photos"
    /\ \E o \in DbOutcomes :
          /\ rec' = update_status(rec, "processing",
                                  "Processing " \o ToString(run[r].paths) \o " photos...",
                                  <<>>, o.read, o.write)
          /\ dbFaults' = dbFaults + Bit(o.read) + Bit(o.write)
    /\ run' = [run EXCEPT ![r].pc = "photo", ![r].k = 1]
    /\ UNCHANGED <<cache, files, inits, envFaults, polled, polls, submitted, quota, call, result>>

\* line 185: int((photo_num / len(photo_paths)) * 80)
PhotoProgress(photo_num, len) == (photo_num * PROGRESS_PHOTOS_SPAN) \div len

\* lines 97-197 for photo k: the computation raises, or it returns and the
\* progress of the photo is written (line 186)
ProcessPhoto(r) ==
    /\ run[r].pc = "photo"
    /\ \/ /\ EnvFaultLeft
          /\ envFaults' = envFaults + 1
          /\ \E e \in PhotoErrors :
                run' = [run EXCEPT ![r].pc = "except", ![r].err = e,
                                   ![r].photo_failed = TRUE]
          /\ UNCHANGED <<rec, dbFaults>>
       \/ /\ \E o \in DbOutcomes :
                /\ rec' = update_status(rec, "processing",
                              "Processed photo " \o ToString(run[r].k) \o "/"
                                  \o ToString(run[r].paths) \o "...",
                              <<PhotoProgress(run[r].k, run[r].paths)>>, o.read, o.write)
                /\ dbFaults' = dbFaults + Bit(o.read) + Bit(o.write)
          /\ run' = [run EXCEPT ![r].k = @ + 1,
                                ![r].pc = IF run[r].k = run[r].paths THEN "upd_costs"
                                          ELSE "photo"]
          /\ UNCHANGED envFaults
    /\ UNCHANGED <<cache, files, inits, polled, polls, submitted, quota, call, result>>

\* ------------------------------------------------------------ finalisation
\* process_assessment line 201; calculate_costs (lines 203-214) is pure
UpdateCalculatingCosts(r) ==
    StatusStep(r, "upd_costs", "processing", "Calculating final costs...",
               <<PROGRESS_COSTS>>, "upd_pdf")

\* line 230
UpdateGeneratingPdf(r) ==
    StatusStep(r, "upd_pdf", "processing", "Generating PDF reports...",
               <<PROGRESS_PDF>>, "pdf")

\* _generate_and_upload_pdfs (lines 460-621): the urls are produced, or the
\* upload is skipped (no user_id), or an exception is caught and logged
PdfOutcomes == {"uploaded", "skipped"} \cup (IF EnvFaultLeft THEN {"raised"} ELSE {})

\* the variant without the try/except of lines 470-619: the exception reaches
\* the except clause of process_assessment
GeneratePdfsUncaught(r) ==
    /\ run[r].pc = "pdf"
    /\ \E out \in PdfOutcomes :
          /\ run' = [run EXCEPT ![r].pc = IF out = "raised" THEN "except" ELSE "upd_save",
                                ![r].err = IF out = "raised" THEN "pdf generation failed" ELSE @,
                                ![r].pdf = (out = "uploaded"),
                                ![r].pdf_raised = (out = "raised")]
          /\ envFaults' = envFaults + Bit(out = "raised")
    /\ UNCHANGED <<rec, cache, files, inits, dbFaults, polled, polls, submitted, quota, call, result>>

GeneratePdfs(r) ==
    /\ run[r].pc = "pdf"
    /\ \E out \in PdfOutcomes :
          /\ run' = [run EXCEPT ![r].pc = "upd_save", ![r].pdf = (out = "uploaded"),
                                ![r].pdf_raised = (out = "raised")]
          /\ envFaults' = envFaults + Bit(out = "raised")
    /\ UNCHANGED <<rec, cache, files, inits, dbFaults, polled, polls, submitted, quota, call, result>>

\* line 241
UpdateSavingResults(r) ==
    StatusStep(r, "upd_save", "processing", "Saving results...", <<PROGRESS_SAVING>>, "save")

\* the update_data of _save_results (lines 641-689; line 689 closes the call of
\* metadata.update with '}' where ')' is meant, the model takes the evident
\* call update({...})). The amounts come from
\* calculate_costs; the breakdown is identified here by the number of photos
\* whose paint costs it sums (len(paint_costs_jod)).
SaveResultsData(photos, pdf) ==
    Merge([status |-> "completed",
           estimated_cost |-> photos,
           subtotal_base |-> photos,
           tax_rate |-> TRUE,
           tax_amount |-> photos,
           subtotal_post_tax |-> photos,
           luxury_factor |-> TRUE,
           country_lux_factor |-> TRUE,
           currency |-> "JOD",
           metadata |-> Merge([consensus_damage_cm2 |-> photos, paint_costs |-> photos],
                              IF pdf THEN [analysis_pdf_url |-> "analysis.pdf"]
                                     ELSE EmptyDict)],
          IF pdf THEN [pdf_url |-> "invoice.pdf"] ELSE EmptyDict)

\* _save_results lines 691-703: the write, re-raised when it fails
SaveResults(r) ==
    /\ run[r].pc = "save"
    /\ \E o \in DbOutcomes :
          /\ o.read = FALSE
          /\ dbFaults' = dbFaults + Bit(o.write)
          /\ IF o.write
                THEN /\ UNCHANGED rec
                     /\ run' = [run EXCEPT ![r].pc = "except",
                                           ![r].err = "store write failed"]
                ELSE /\ rec' = TableUpdate(rec, SaveResultsData(run[r].paths, run[r].pdf))
                     /\ run' = [run EXCEPT ![r].pc = "upd_done"]
    /\ UNCHANGED <<cache, files, inits, envFaults, polled, polls, submitted, quota, call, result>>

\* line 263
UpdateCompleted(r) ==
    StatusStep(r, "upd_done", "completed", "Assessment processing completed!",
               <<PROGRESS_DONE>>, "done")

\* lines 265-272: the except clause of process_assessment
MarkFailed(r) ==
    StatusStep(r, "except", "failed", run[r].err, <<0>>, "done")

\* ------------------------------------------------------------------ polling
\* a GET /assessments/{id}/status request
Poll ==
    /\ polls < quota.polls
    /\ polled' = get_assessment_status(rec)
    /\ polls' = polls + 1
    /\ UNCHANGED <<rec, run, cache, files, inits, dbFaults, envFaults, submitted, quota, call, result>>

RunStep(r) ==
    \/ UpdateInitializing(r)
    \/ UpdateLoadingModels(r)
    \/ LoadModel(r)
    \/ DownloadModel(r)
    \/ CheckModels(r)
    \/ DownloadPhoto(r)
    \/ UpdateProcessingPhotos(r)
    \/ ProcessPhoto(r)
    \/ UpdateCalculatingCosts(r)
    \/ UpdateGeneratingPdf(r)
    \/ GeneratePdfs(r)
    \/ UpdateSavingResults(r)
    \/ SaveResults(r)
    \/ UpdateCompleted(r)
    \/ MarkFailed(r)

Next ==
    \/ Submit
    \/ \E r \in Runs : RunStep(r)
    \/ Poll

\* several submits of the id, overlapping runs
Spec == Init /\ [][Next]_vars

\* one submit, one run
SpecOne == InitOne /\ [][Next]_vars

\* ------------------------------------------------------- rejected requests
\* the ids and the numbers of photo urls of requests that fail validation
AssessmentIds == {"", "a1"}
RejectedRequests ==
    {[fn |-> "process_assessment", assessment_id |-> id, photo_urls |-> n] :
        id \in AssessmentIds, n \in 0 .. 1} \ 
    {[fn |-> "process_assessment", assessment_id |-> "a1", photo_urls |-> 1]}

\* routes.py:51-55: the HTTPException of the validation
Rejection(request) ==
    [returned |-> TRUE, status_code |-> 400,
     detail |-> IF request.assessment_id = "" THEN "assessment_id is required"
                ELSE "At least one photo URL is required"]

\* a handler that validates after its status write
SubmitValidatedLate ==
    /\ \E request \in RejectedRequests :
          /\ call' = request
          /\ result' = Rejection(request)
    /\ rec' = TableUpdate(rec, [status |-> "processing",
                                metadata |-> [message |-> "Processing started",
                                              progress |-> 0]])
    /\ UNCHANGED <<run, cache, files, inits, dbFaults, envFaults, polled, polls, submitted, quota>>

\* routes.process_assessment with a request that fails validation (lines
\* 48-55): the exception is raised before the status write and before the
\* background task is added; call and result hold the request and the response
SubmitRejected ==
    /\ \E request \in RejectedRequests :
          /\ call' = request
          /\ result' = Rejection(request)
    /\ UNCHANGED <<rec, run, cache, files, inits, dbFaults, envFaults, polled, polls, submitted, quota>>

\* one accepted submit of the id and any number of rejected ones
InitRequests == InitWith([submits |-> 1, photos |-> MaxPhotosShared,
                          db |-> MaxDbFaultsShared, env |-> MaxEnvFaultsShared,
                          polls |-> MaxPollsShared],
                         {MODEL_PATHS \ (1 .. missing) : missing \in 0 .. MaxMissingShared})

NextRequests ==
    \/ Submit
    \/ \E r \in Runs : RunStep(r)
    \/ Poll
    \/ SubmitRejected

SpecRequests == InitRequests /\ [][NextRequests]_vars

\* ============================================== get_multi_model_consensus
\* utils/consensus.py. A detection is [xyxy, conf, class_name]: xyxy is
\* <<x1, y1, x2, y2>> in pixels, conf is in hundredths, class_name is the
\* sequence of the characters of res.names[cls]. all_boxes is the list built
\* by lines 21-33 from the results of the damage models, in their order.
\* a threshold of one quarter
QuarterThreshold == [num |-> 1, den |-> 4]

\* config.IOU_THRESHOLD = 0.5, passed at damage_processor.py:148-151
IOU_THRESHOLD == [num |-> 1, den |-> 2]

\* the thresholds a caller passes: the configured one and a lower one
Thresholds == {IOU_THRESHOLD, [num |-> 1, den |-> 4]}

\* boxes with pairwise IoU 0, 1/3, 1/2 and 1
Rects == {<<0, 0, 6, 2>>, <<0, 0, 3, 2>>, <<3, 0, 5, 2>>}

ClassNames == {<<"W", "i", "n", "d", "s", "h", "i", "e", "l", "d">>,
               <<"h", "e", "a", "d", "L", "i", "g", "h", "t">>,
               <<"d", "e", "n", "t">>}

\* the detections a damage model may report (run with conf=0.3, lines 133-135);
\* the confidence is fixed per box and label, and differs between them
Detections == {[xyxy |-> r, conf |-> 30 + 5 * (r[1] + r[3]) + 2 * Len(n), class_name |-> n] :
                  r \in Rects, n \in ClassNames}

BoundedSeq(S, n) == UNION {[1 .. k -> S] : k \in 0 .. n}

Max2(a, b) == IF a >= b THEN a ELSE b
Min2(a, b) == IF a <= b THEN a ELSE b

\* str.lower(), on the capitals that occur in class names
Lower(name) ==
    [k \in DOMAIN name |-> CASE name[k] = "W" -> "w"
                             [] name[k] = "L" -> "l"
                             [] name[k] = "D" -> "d"
                             [] OTHER -> name[k]]

\* sub in name
Contains(sub, name) ==
    \E k \in 0 .. Len(name) - Len(sub) : SubSeq(name, k + 1, k + Len(sub)) = sub

WINDSHIELD == <<"w", "i", "n", "d", "s", "h", "i", "e", "l", "d">>
LIGHT == <<"l", "i", "g", "h", "t">>

\* lines 50-58
Inter(b1, b2) ==
    LET xi1 == Max2(b1[1], b2[1])
        yi1 == Max2(b1[2], b2[2])
        xi2 == Min2(b1[3], b2[3])
        yi2 == Min2(b1[4], b2[4])
    IN  Max2(0, xi2 - xi1) * Max2(0, yi2 - yi1)

Area(b) == (b[3] - b[1]) * (b[4] - b[2])

Union(b1, b2) == Area(b1) + Area(b2) - Inter(b1, b2)

\* the comparison of line 60 with >= in the place of >
IoUAtLeast(b1, b2, iou_threshold) ==
    /\ Union(b1, b2) > 0
    /\ Inter(b1, b2) * iou_threshold.den >= iou_threshold.num * Union(b1, b2)

\* line 60: union > 0 and inter / union > iou_threshold
IoUAbove(b1, b2, iou_threshold) ==
    /\ Union(b1, b2) > 0
    /\ Inter(b1, b2) * iou_threshold.den > iou_threshold.num * Union(b1, b2)

\* a scan that takes consumed detections as well
MatchesOfAny(all_boxes, i, used, iou_threshold) ==
    <<i>> \o SelectSeq([j \in 1 .. Len(all_boxes) |-> j],
                       LAMBDA j : /\ j # i
                                  /\ IoUAbove(all_boxes[i].xyxy, all_boxes[j].xyxy,
                                              iou_threshold))

\* lines 43-62: the list matches of seed i, as indices into all_boxes;
\* used[j] is written for j itself only, so the scan is a filter
Matches(all_boxes, i, used, iou_threshold) ==
    <<i>> \o SelectSeq([j \in 1 .. Len(all_boxes) |-> j],
                       LAMBDA j : /\ j # i
                                  /\ ~used[j]
                                  /\ IoUAbove(all_boxes[i].xyxy, all_boxes[j].xyxy,
                                              iou_threshold))

RECURSIVE SeqSum(_)
SeqSum(values) == IF values = <<>> THEN 0 ELSE Head(values) + SeqSum(Tail(values))

\* np.mean as the exact fraction sum / n
Mean(values) == [sum |-> SeqSum(values), n |-> Len(values)]

\* an item whose box and confidence average the members of its own category only
ItemOfCategory(all_boxes, matches, detected_class, is_windshield, is_light) ==
    LET own == SelectSeq(matches,
                   LAMBDA m : LET name == Lower(all_boxes[m].class_name)
                              IN  IF is_windshield THEN Contains(WINDSHIELD, name)
                                  ELSE IF is_light THEN Contains(LIGHT, name)
                                  ELSE ~Contains(WINDSHIELD, name) /\ ~Contains(LIGHT, name))
    IN  [xyxy |-> [c \in 1 .. 4 |-> Mean([k \in 1 .. Len(own) |-> all_boxes[own[k]].xyxy[c]])],
         conf |-> Mean([k \in 1 .. Len(own) |-> all_boxes[own[k]].conf]),
         cls |-> all_boxes[matches[1]].class_name,
         detected_class |-> detected_class,
         is_windshield |-> is_windshield,
         is_light |-> is_light]

\* the dict appended at lines 72-80, 85-93, 102-110; avg_box is line 66; cls
\* with model_names names the class of the seed
Item(all_boxes, matches, detected_class, is_windshield, is_light) ==
    [xyxy |-> [c \in 1 .. 4 |-> Mean([k \in 1 .. Len(matches) |-> all_boxes[matches[k]].xyxy[c]])],
     conf |-> Mean([k \in 1 .. Len(matches) |-> all_boxes[matches[k]].conf]),
     cls |-> all_boxes[matches[1]].class_name,
     detected_class |-> detected_class,
     is_windshield |-> is_windshield,
     is_light |-> is_light]

\* the items of a group whose Damage item does not look at has_specific_damage
ConsensusItemsUnguarded(all_boxes, matches) ==
    LET names == [k \in 1 .. Len(matches) |-> Lower(all_boxes[matches[k]].class_name)]
        windshield_count == Cardinality({k \in DOMAIN names : Contains(WINDSHIELD, names[k])})
        light_count == Cardinality({k \in DOMAIN names : Contains(LIGHT, names[k])})
        other_damage_count ==
            Cardinality({k \in DOMAIN names : /\ ~Contains(WINDSHIELD, names[k])
                                              /\ ~Contains(LIGHT, names[k])})
    IN  (IF windshield_count >= 2
            THEN <<Item(all_boxes, matches, "Windshield", TRUE, FALSE)>> ELSE <<>>)
        \o (IF light_count >= 2
               THEN <<Item(all_boxes, matches, "Light", FALSE, TRUE)>> ELSE <<>>)
        \o (IF other_damage_count >= 2
               THEN <<Item(all_boxes, matches, "Damage", FALSE, FALSE)>> ELSE <<>>)

\* lines 67-110: current_consensus_items of a group
CurrentConsensusItems(all_boxes, matches) ==
    LET names == [k \in 1 .. Len(matches) |-> Lower(all_boxes[matches[k]].class_name)]
        windshield_count == Cardinality({k \in DOMAIN names : Contains(WINDSHIELD, names[k])})
        light_count == Cardinality({k \in DOMAIN names : Contains(LIGHT, names[k])})
        has_specific_damage == windshield_count >= 2 \/ light_count >= 2
        other_damage_count ==
            Cardinality({k \in DOMAIN names : /\ ~Contains(WINDSHIELD, names[k])
                                              /\ ~Contains(LIGHT, names[k])})
    IN  (IF windshield_count >= 2
            THEN <<Item(all_boxes, matches, "Windshield", TRUE, FALSE)>> ELSE <<>>)
        \o (IF light_count >= 2
               THEN <<Item(all_boxes, matches, "Light", FALSE, TRUE)>> ELSE <<>>)
        \o (IF ~has_specific_damage /\ other_damage_count >= 2
               THEN <<Item(all_boxes, matches, "Damage", FALSE, FALSE)>> ELSE <<>>)

\* a group that emits a Damage item whatever its size and labels
GroupConsensusAlways(all_boxes, matches) ==
    <<Item(all_boxes, matches, "Damage", FALSE, FALSE)>>

\* lines 64-112: what a group adds to consensus
GroupConsensus(all_boxes, matches) ==
    IF Len(matches) >= 2 THEN CurrentConsensusItems(all_boxes, matches) ELSE <<>>

\* lines 39-114 from seed i on. groups records, for each seed, the flags used
\* as the seed found them, its list matches, and the items it appended.
RECURSIVE ConsensusLoop(_, _, _, _, _)
ConsensusLoop(all_boxes, iou_threshold, i, used, groups) ==
    IF i > Len(all_boxes) THEN groups
    ELSE IF used[i] THEN ConsensusLoop(all_boxes, iou_threshold, i + 1, used, groups)
    ELSE LET matches == Matches(all_boxes, i, used, iou_threshold)
             members == {matches[k] : k \in 1 .. Len(matches)}
         IN  ConsensusLoop(all_boxes, iou_threshold, i + 1,
                           [j \in DOMAIN used |-> used[j] \/ j \in members],
                           Append(groups, [used |-> used, matches |-> matches,
                                           items |-> GroupConsensus(all_boxes, matches)]))

ConsensusGroups(all_boxes, iou_threshold) ==
    ConsensusLoop(all_boxes, iou_threshold, 1, [j \in 1 .. Len(all_boxes) |-> FALSE], <<>>)

RECURSIVE Concat(_)
Concat(seqs) == IF seqs = <<>> THEN <<>> ELSE Head(seqs) \o Concat(Tail(seqs))

\* the list consensus that is returned (line 116)
get_multi_model_consensus(all_boxes, iou_threshold) ==
    LET groups == ConsensusGroups(all_boxes, iou_threshold)
    IN  Concat([g \in 1 .. Len(groups) |-> groups[g].items])

\* no job is submitted while a pure function is evaluated
NoJob ==
    /\ rec = [status |-> "pending", metadata |-> EmptyDict]
    /\ run = [r \in Runs |-> IdleRun]
    /\ cache = EmptyDict
    /\ files = MODEL_PATHS
    /\ inits = [m \in MODEL_PATHS |-> 0]
    /\ dbFaults = 0
    /\ envFaults = 0
    /\ polled = <<>>
    /\ polls = 0
    /\ submitted = 0
    /\ quota = [submits |-> 0, photos |-> 0, db |-> 0, env |-> 0, polls |-> 0]

jobVars == <<rec, run, cache, files, inits, dbFaults, envFaults, polled, polls, submitted, quota>>

InitConsensus ==
    /\ NoJob
    /\ call \in {[fn |-> "get_multi_model_consensus", all_boxes |-> b, iou_threshold |-> t] :
                    b \in BoundedSeq(Detections, MaxBoxes), t \in Thresholds}
    /\ result = NoResult

\* the call returns
ApplyConsensus ==
    /\ call.fn = "get_multi_model_consensus"
    /\ ~result.returned
    /\ result' = [returned |-> TRUE,
                  groups |-> ConsensusGroups(call.all_boxes, call.iou_threshold),
                  consensus |-> get_multi_model_consensus(call.all_boxes, call.iou_threshold)]
    /\ UNCHANGED <<call, jobVars>>

\* get_multi_model_consensus on every list of at most MaxBoxes detections
SpecConsensus == InitConsensus /\ [][ApplyConsensus]_vars

\* ========================================================= calculate_scale
\* app/utils/scale_calculator.py. A detection is [xyxy, conf, class_name] as
\* above; xywh[2] and xywh[3] are the width and the height of xyxy. A scale is
\* the exact fraction num / den, None is <<>>.
conf_th == 50
HEADLIGHT_CONF == 30
LICENSE_CONF == 65
HEADLIGHT_WIDTH_CM == 33
FALLBACK_WIDTH_CM == 100

HANDLE == <<"h", "a", "n", "d", "l", "e">>
WHEEL == <<"w", "h", "e", "e", "l">>
TIRE == <<"t", "i", "r", "e">>
HEADLIGHT == <<"h", "e", "a", "d", "l", "i", "g", "h", "t">>
LICENSE == <<"l", "i", "c", "e", "n", "s", "e">>
PLATE == <<"p", "l", "a", "t", "e">>

\* the boxes of reference objects: 10 x 20 and 40 x 30 pixels
ScaleRects == {<<0, 0, 10, 20>>, <<0, 0, 40, 30>>}

\* the handle and component models run with conf=0.4 (damage_processor.py:107-108):
\* confidences below, at and above the thresholds 0.5 and 0.65
ScaleConfidences == {40, 50, 65, 70}

HandleDetections == {[xyxy |-> <<0, 0, 10, 20>>, conf |-> c, class_name |-> HANDLE] :
                        c \in {50, 70}}

\* wheels of both sizes, one headlight, plates around the plate threshold
ComponentDetections ==
    {[xyxy |-> r, conf |-> c, class_name |-> WHEEL] :
        r \in ScaleRects, c \in ScaleConfidences \ {LICENSE_CONF}}
    \cup {[xyxy |-> <<0, 0, 40, 30>>, conf |-> 40, class_name |-> HEADLIGHT]}
    \cup {[xyxy |-> <<0, 0, 40, 30>>, conf |-> c, class_name |-> PLATE] :
              c \in ScaleConfidences \ {40}}

\* the reference measurements of a request are floats that are not validated
\* (routes.py:8-21); the image size is the one PIL reports
TireDiameters == {-60, 0, 60}
HandleWidths == {0, 12}
LicenseWidths == {0, 30}
ImageWidths == {500, 1000}
ImageHeight == 400

Width(box) == box.xyxy[3] - box.xyxy[1]
Height(box) == box.xyxy[4] - box.xyxy[2]

SetMax(S) == CHOOSE x \in S : \A y \in S : x >= y

\* best = 0; for each qualifying box: best = max(best, size)
BestPx(sizes) == SetMax({0} \cup sizes)

\* lines 37, 47, 53, 58, 63
IsHandle(box) == Contains(HANDLE, Lower(box.class_name)) /\ box.conf > conf_th
IsTire(box) ==
    /\ Contains(WHEEL, Lower(box.class_name)) \/ Contains(TIRE, Lower(box.class_name))
    /\ box.conf > conf_th
IsHeadlight(box) == Contains(HEADLIGHT, Lower(box.class_name)) /\ box.conf > HEADLIGHT_CONF
IsLicenseAnyConfidence(box) ==
    Contains(LICENSE, Lower(box.class_name)) \/ Contains(PLATE, Lower(box.class_name))
IsLicense(box) ==
    /\ Contains(LICENSE, Lower(box.class_name)) \/ Contains(PLATE, Lower(box.class_name))
    /\ box.conf > LICENSE_CONF
IsWindshield(box) == Contains(WINDSHIELD, Lower(box.class_name)) /\ box.conf > conf_th

\* lines 67-70: measurement / best_px if best_px > 0 else None
ScaleOf(measurement, best_px) ==
    IF best_px > 0 THEN <<[num |-> measurement, den |-> best_px]>> ELSE <<>>

\* the truth value of an optional float: None and 0.0 are false
Truthy(scale) == scale # <<>> /\ scale[1].num # 0

\* lines 25-104; the dash of the headlight source is written in ASCII
calculate_scale(handle_res, component_res, tire_diameter, handle_width, license_width, image_width_px, image_height_px) ==
    LET handles == SelectSeq(handle_res, IsHandle)
        tires == SelectSeq(component_res, IsTire)
        headlights == SelectSeq(component_res, IsHeadlight)
        licenses == SelectSeq(component_res, IsLicense)
        best_handle_px == BestPx({Width(handles[k]) : k \in DOMAIN handles})
        best_tire_px == BestPx({Min2(Width(tires[k]), Height(tires[k])) : k \in DOMAIN tires})
        best_headlight_px == BestPx({Width(headlights[k]) : k \in DOMAIN headlights})
        best_license_px == BestPx({Width(licenses[k]) : k \in DOMAIN licenses})
        tire_boxes == SelectSeq(component_res, IsTire)
        windshield_boxes == SelectSeq(component_res, IsWindshield)
        tire_scale == ScaleOf(tire_diameter, best_tire_px)
        handle_scale == ScaleOf(handle_width, best_handle_px)
        license_scale == ScaleOf(license_width, best_license_px)
        headlight_scale == ScaleOf(HEADLIGHT_WIDTH_CM, best_headlight_px)
        chosen ==
            IF Truthy(tire_scale)
                THEN [scale |-> tire_scale, source |-> "TIRE/WHEEL-BASED (Priority 1)"]
            ELSE IF Truthy(handle_scale)
                THEN [scale |-> handle_scale, source |-> "HANDLE-BASED (Priority 2)"]
            ELSE IF Truthy(license_scale)
                THEN [scale |-> license_scale, source |-> "LICENSE PLATE-BASED (Priority 3)"]
            ELSE IF Truthy(headlight_scale)
                THEN [scale |-> headlight_scale,
                      source |-> "HEADLIGHT-BASED (33 cm fixed - Priority 4)"]
            ELSE IF image_width_px # 0
                THEN [scale |-> <<[num |-> FALLBACK_WIDTH_CM, den |-> image_width_px]>>,
                      source |-> "FALLBACK (Image width = 1 meter)"]
            ELSE [scale |-> <<>>, source |-> "ZeroDivisionError"]
    IN  IF chosen.scale = <<>>
            THEN [returned |-> TRUE, raised |-> TRUE]
            ELSE [returned |-> TRUE, raised |-> FALSE,
                  scale_cm_per_px |-> chosen.scale[1],
                  source |-> chosen.source,
                  tire_detected |-> best_tire_px > 0,
                  handle_detected |-> best_handle_px > 0,
                  license_detected |-> best_license_px > 0,
                  headlight_detected |-> best_headlight_px > 0,
                  tire_boxes |-> [k \in DOMAIN tire_boxes |-> tire_boxes[k].xyxy],
                  windshield_boxes |-> [k \in DOMAIN windshield_boxes |-> windshield_boxes[k].xyxy],
                  estimated_image_width_cm |-> [num |-> image_width_px * chosen.scale[1].num,
                                                den |-> chosen.scale[1].den],
                  best_tire_px |-> best_tire_px,
                  best_handle_px |-> best_handle_px,
                  best_license_px |-> best_license_px,
                  best_headlight_px |-> best_headlight_px]

InitScale ==
    /\ NoJob
    /\ call \in {[fn |-> "calculate_scale", handle_res |-> hr, component_res |-> cr,
                  tire_diameter |-> td, handle_width |-> hw, license_width |-> lw,
                  image_width_px |-> w, image_height_px |-> ImageHeight] :
                    hr \in BoundedSeq(HandleDetections, MaxHandleBoxes),
                    cr \in BoundedSeq(ComponentDetections, MaxComponentBoxes),
                    td \in TireDiameters, hw \in HandleWidths, lw \in LicenseWidths,
                    w \in ImageWidths}
    /\ result = NoResult

\* the call returns or raises
ApplyScale ==
    /\ call.fn = "calculate_scale"
    /\ ~result.returned
    /\ result' = calculate_scale(call.handle_res, call.component_res, call.tire_diameter,
                                 call.handle_width, call.license_width,
                                 call.image_width_px, call.image_height_px)
    /\ UNCHANGED <<call, jobVars>>

\* calculate_scale on the detections of one photo and the measurements of a request
SpecScale == InitScale /\ [][ApplyScale]_vars

\* ==================================================== paint area and costs
\* A float is the exact fraction num / den with den > 0, in lowest terms.
Abs(x) == IF x < 0 THEN -x ELSE x

RECURSIVE Gcd(_, _)
Gcd(a, b) == IF b = 0 THEN a ELSE Gcd(b, a % b)

Rat(num, den) ==
    LET g == Gcd(Abs(num), Abs(den))
        s == IF den < 0 THEN -1 ELSE 1
    IN  [num |-> (s * num) \div g, den |-> (s * den) \div g]

ZERO == [num |-> 0, den |-> 1]

Float(n) == [num |-> n, den |-> 1]

\* a + b over the least common denominator
RatAdd(a, b) ==
    LET g == Gcd(a.den, b.den)
    IN  Rat(a.num * (b.den \div g) + b.num * (a.den \div g), a.den * (b.den \div g))

\* a * b, cancelling across before multiplying
RatMul(a, b) ==
    LET x == Rat(a.num, b.den)
        y == Rat(b.num, a.den)
    IN  Rat(x.num * y.num, x.den * y.den)

\* a < b, compared over the least common denominator
RatLess(a, b) ==
    LET g == Gcd(a.den, b.den)
    IN  a.num * (b.den \div g) < b.num * (a.den \div g)

RECURSIVE RatSum(_)
RatSum(values) == IF values = <<>> THEN ZERO ELSE RatAdd(Head(values), RatSum(Tail(values)))

\* damage_processor.py:354: inter / (damage_area_px + 1e-6) > 0.5
EPSILON_INV == 1000000

\* damage_processor.py:172-175: 0.019157 * paint_area + 2.093
PAINT_SLOPE == [num |-> 19157, den |-> 1000000]
PAINT_INTERCEPT == [num |-> 2093, den |-> 1000]

\* cost_calculator.py:42-44
LIGHT_COST_JOD == 30
WINDSHIELD_COST_JOD == 50
TIRE_COST_JOD == 20

\* detected_class as the characters of the string
ClassChars(detected_class) ==
    CASE detected_class = "Windshield" -> <<"W", "i", "n", "d", "s", "h", "i", "e", "l", "d">>
      [] detected_class = "Light" -> <<"L", "i", "g", "h", "t">>
      [] detected_class = "Damage" -> <<"D", "a", "m", "a", "g", "e">>

\* lines 327-332
IsWindshieldItem(item) ==
    item.is_windshield \/ Contains(WINDSHIELD, Lower(ClassChars(item.detected_class)))

\* an item that is never taken for a light
IsLightItemNever(item) == FALSE

\* lines 335-337
IsLightItem(item) ==
    item.is_light \/ Contains(LIGHT, Lower(ClassChars(item.detected_class)))

\* lines 340-341: damage_area_px, over the square of the group size n, since
\* each corner of the item is the fraction sum / n
DamageAreaPx(item) ==
    [num |-> (item.xyxy[3].sum - item.xyxy[1].sum) * (item.xyxy[4].sum - item.xyxy[2].sum),
     den |-> item.xyxy[1].n * item.xyxy[1].n]

\* line 342: area_cm2 = damage_area_px * (scale_cm_per_px ** 2)
AreaCm2(item, scale_cm_per_px) ==
    RatMul(Rat(DamageAreaPx(item).num, DamageAreaPx(item).den),
           RatMul(scale_cm_per_px, scale_cm_per_px))

\* lines 347-351: inter with a tire box, over the same denominator n * n
TireInter(item, tire_box) ==
    LET n == item.xyxy[1].n
        xi1 == Max2(item.xyxy[1].sum, tire_box[1] * n)
        yi1 == Max2(item.xyxy[2].sum, tire_box[2] * n)
        xi2 == Min2(item.xyxy[3].sum, tire_box[3] * n)
        yi2 == Min2(item.xyxy[4].sum, tire_box[4] * n)
    IN  Max2(0, xi2 - xi1) * Max2(0, yi2 - yi1)

\* the test of line 354 with >= in the place of >
OverlapsTireFromHalf(item, tire_boxes) ==
    \E k \in DOMAIN tire_boxes :
        2 * TireInter(item, tire_boxes[k]) - DamageAreaPx(item).num
            >= (DamageAreaPx(item).den \div EPSILON_INV)

\* lines 345-357: some tire box has inter / (damage_area_px + 1e-6) > 0.5.
\* With I = inter * n * n, A = damage_area_px * n * n and a non-negative area
\* this is 2 * I - A > n * n / 10^6, and for integers 2 * I - A that is
\* 2 * I - A > (n * n) div 10^6.
OverlapsTire(item, tire_boxes) ==
    \E k \in DOMAIN tire_boxes :
        2 * TireInter(item, tire_boxes[k]) - DamageAreaPx(item).num
            > (DamageAreaPx(item).den \div EPSILON_INV)

\* lines 325-361 from item k on; acc holds paint_area and the three flags
RECURSIVE PaintLoop(_, _, _, _, _)
PaintLoop(consensus, tire_boxes, scale_cm_per_px, k, acc) ==
    IF k > Len(consensus) THEN acc
    ELSE LET item == consensus[k] IN
         PaintLoop(consensus, tire_boxes, scale_cm_per_px, k + 1,
            IF IsWindshieldItem(item) THEN [acc EXCEPT !.has_windshield = TRUE]
            ELSE IF IsLightItem(item) THEN [acc EXCEPT !.has_light = TRUE]
            ELSE IF OverlapsTire(item, tire_boxes) THEN [acc EXCEPT !.has_tire = TRUE]
            ELSE [acc EXCEPT !.paint_area = RatAdd(@, AreaCm2(item, scale_cm_per_px))])

\* lines 300-363
calculate_paint_area(consensus, tire_boxes, scale_cm_per_px) ==
    PaintLoop(consensus, tire_boxes, scale_cm_per_px, 1,
              [paint_area |-> ZERO, has_windshield |-> FALSE, has_light |-> FALSE,
               has_tire |-> FALSE])

\* a paint cost that charges the intercept for every photo
PaintCostWithIntercept(paint_area) ==
    RatAdd(RatMul(PAINT_SLOPE, paint_area), PAINT_INTERCEPT)

\* lines 172-175: paint_cost_photo_jod
PaintCost(paint_area) ==
    IF RatLess(ZERO, paint_area)
        THEN RatAdd(RatMul(PAINT_SLOPE, paint_area), PAINT_INTERCEPT)
        ELSE ZERO

\* the boxes of damage detections of one photo, in pixels, and of its tires:
\* the wheel is 100 pixels across; the damage boxes share nothing, 50%, 60% and
\* 40% of their area with it
WheelRect == <<100, 0, 200, 100>>
TireRects == {WheelRect, <<0, 60, 20, 80>>}

\* the item a group of two detections emits (consensus.py:66-110)
PairItem(r1, r2, detected_class) ==
    Item(<<[xyxy |-> r1, conf |-> 60, class_name |-> ClassChars(detected_class)],
           [xyxy |-> r2, conf |-> 70, class_name |-> ClassChars(detected_class)]>>,
         <<1, 2>>, detected_class, detected_class = "Windshield", detected_class = "Light")

\* generic items off the wheel and 50%, 55% and 40% on it, a windshield and a
\* light item
PaintItems ==
    {PairItem(<<0, 0, 50, 50>>, <<0, 0, 50, 50>>, "Damage"),
     PairItem(<<50, 0, 150, 100>>, <<50, 0, 150, 100>>, "Damage"),
     PairItem(<<50, 0, 150, 100>>, <<60, 0, 160, 100>>, "Damage"),
     PairItem(<<40, 0, 140, 100>>, <<40, 0, 140, 100>>, "Damage"),
     PairItem(<<50, 0, 150, 100>>, <<60, 0, 160, 100>>, "Windshield"),
     PairItem(<<0, 0, 50, 50>>, <<0, 0, 50, 50>>, "Light")}

\* what calculate_scale returns for a photo 500 pixels wide that shows the
\* wheel, for a tire diameter of 60 cm and of -60 cm, and for one without a
\* reference
WheelPhoto(tire_diameter) ==
    calculate_scale(<<>>, <<[xyxy |-> WheelRect, conf |-> 70, class_name |-> WHEEL]>>,
                    tire_diameter, 0, 0, 500, ImageHeight)
PlainPhoto == calculate_scale(<<>>, <<>>, 60, 0, 0, 500, ImageHeight)

PaintScales == {Rat(WheelPhoto(60).scale_cm_per_px.num, WheelPhoto(60).scale_cm_per_px.den),
                Rat(WheelPhoto(-60).scale_cm_per_px.num, WheelPhoto(-60).scale_cm_per_px.den),
                Rat(PlainPhoto.scale_cm_per_px.num, PlainPhoto.scale_cm_per_px.den)}

InitPaint ==
    /\ NoJob
    /\ call \in {[fn |-> "_calculate_paint_area", consensus |-> c, tire_boxes |-> t,
                  scale_cm_per_px |-> s] :
                    c \in BoundedSeq(PaintItems, MaxItems),
                    t \in BoundedSeq(TireRects, MaxTireBoxes),
                    s \in PaintScales}
    /\ result = NoResult

\* lines 169-177: the paint area, the flags and the paint cost of one photo
PhotoPaintCost ==
    /\ call.fn = "_calculate_paint_area"
    /\ ~result.returned
    /\ LET paint == calculate_paint_area(call.consensus, call.tire_boxes, call.scale_cm_per_px)
       IN  result' = [returned |-> TRUE,
                      paint_area |-> paint.paint_area,
                      is_photo_windshield |-> paint.has_windshield,
                      is_photo_light |-> paint.has_light,
                      is_photo_tire |-> paint.has_tire,
                      paint_cost_photo_jod |-> PaintCost(paint.paint_area)]
    /\ UNCHANGED <<call, jobVars>>

\* _calculate_paint_area and the paint cost on every list of at most MaxItems
\* consensus items
SpecPaint == InitPaint /\ [][PhotoPaintCost]_vars

\* ------------------------------------------------------------------- costs
\* the flag of the last photo alone
LastFlag(global_flag, photo_flag) == photo_flag

\* damage_processor.py:179-182: global_has_x = global_has_x or is_photo_x
OrFlag(global_flag, photo_flag) == global_flag \/ photo_flag

\* cost_calculator.py:42-44: the flat cost of a component, charged once
FlatCost(flag, cost) == IF flag THEN Float(cost) ELSE ZERO

\* a tax that is the rate itself, whatever the subtotal
TaxAmountFlat(subtotal_local_base, country_tax_rate) == country_tax_rate

\* cost_calculator.py:53
TaxAmount(subtotal_local_base, country_tax_rate) ==
    RatMul(subtotal_local_base, country_tax_rate)

\* cost_calculator.py:38-86; paint_costs_jod holds <<photo_num, area, cost>>
calculate_costs(photo_results, paint_costs_jod, global_has_windshield_damage, global_has_light_damage, global_has_tire_damage, jod_to_local, country_tax_rate, luxury_index, country_lux_factor, currency) ==
    LET paint_total_jod == RatSum([k \in DOMAIN paint_costs_jod |-> paint_costs_jod[k][3]])
        light_cost_jod == FlatCost(global_has_light_damage, LIGHT_COST_JOD)
        windshield_cost_jod == FlatCost(global_has_windshield_damage, WINDSHIELD_COST_JOD)
        tire_cost_jod == FlatCost(global_has_tire_damage, TIRE_COST_JOD)
        subtotal_jod_base ==
            RatAdd(RatAdd(RatAdd(paint_total_jod, light_cost_jod), windshield_cost_jod),
                   tire_cost_jod)
        subtotal_local_base == RatMul(subtotal_jod_base, jod_to_local)
        tax_amount_on_base_local == TaxAmount(subtotal_local_base, country_tax_rate)
        subtotal_post_base_tax == RatAdd(subtotal_local_base, tax_amount_on_base_local)
        final_local_cost ==
            RatMul(RatMul(subtotal_post_base_tax, luxury_index), country_lux_factor)
    IN  [returned |-> TRUE,
         paint_costs_jod |-> paint_costs_jod,
         paint_costs_local |->
             [k \in DOMAIN paint_costs_jod |->
                 <<paint_costs_jod[k][1], paint_costs_jod[k][2],
                   RatMul(paint_costs_jod[k][3], jod_to_local)>>],
         paint_total_jod |-> paint_total_jod,
         light_cost_jod |-> light_cost_jod,
         light_cost_local |-> RatMul(light_cost_jod, jod_to_local),
         windshield_cost_jod |-> windshield_cost_jod,
         windshield_cost_local |-> RatMul(windshield_cost_jod, jod_to_local),
         tire_cost_jod |-> tire_cost_jod,
         tire_cost_local |-> RatMul(tire_cost_jod, jod_to_local),
         subtotal_jod_base |-> subtotal_jod_base,
         subtotal_local_base |-> subtotal_local_base,
         tax_rate |-> country_tax_rate,
         tax_amount_on_base_local |-> tax_amount_on_base_local,
         subtotal_post_base_tax |-> subtotal_post_base_tax,
         luxury_index |-> luxury_index,
         country_lux_factor |-> country_lux_factor,
         final_local_cost |-> final_local_cost,
         currency |-> currency]

\* what _calculate_paint_area returns for photos that show the wheel and at
\* most one item: nothing, a generic item off or on the wheel, a windshield or
\* a light item
CostItems ==
    {PairItem(<<0, 0, 50, 50>>, <<0, 0, 50, 50>>, "Damage"),
     PairItem(<<50, 0, 150, 100>>, <<60, 0, 160, 100>>, "Damage"),
     PairItem(<<50, 0, 150, 100>>, <<60, 0, 160, 100>>, "Windshield"),
     PairItem(<<0, 0, 50, 50>>, <<0, 0, 50, 50>>, "Light")}
PhotoOutcomes ==
    {calculate_paint_area(c, <<WheelRect>>, Rat(60, 100)) : c \in BoundedSeq(CostItems, 1)}

\* the rates of a request are floats that are not validated (routes.py:8-21)
ExchangeRates == {Float(1), Rat(3, 2)}
TaxRates == {ZERO, Rat(1, 10)}
LuxuryIndexes == {Float(1), Float(2)}
CountryLuxFactors == {Float(1), Float(2)}

\* the locals of process_assessment before the first photo (lines 78-88)
InitCosts ==
    /\ NoJob
    /\ call \in {[fn |-> "process_assessment", photos |-> <<>>, paint_costs_jod |-> <<>>,
                  global_has_windshield_damage |-> FALSE,
                  global_has_light_damage |-> FALSE,
                  global_has_tire_damage |-> FALSE,
                  currency_exchange_rate |-> x, tax_rate |-> t, luxury_index |-> l,
                  country_lux_factor |-> f, currency |-> "JOD"] :
                    x \in ExchangeRates, t \in TaxRates, l \in LuxuryIndexes,
                    f \in CountryLuxFactors}
    /\ result = NoResult

\* lines 169-182 for the next photo: its paint cost is appended and its flags
\* are folded into the global ones
PhotoCosts ==
    /\ call.fn = "process_assessment"
    /\ ~result.returned
    /\ Len(call.photos) < MaxCostPhotos
    /\ \E photo \in PhotoOutcomes :
          call' = [call EXCEPT
                      !.photos = Append(@, photo),
                      !.paint_costs_jod =
                          Append(@, <<Len(call.photos) + 1, photo.paint_area,
                                      PaintCost(photo.paint_area)>>),
                      !.global_has_windshield_damage = OrFlag(@, photo.has_windshield),
                      !.global_has_light_damage = OrFlag(@, photo.has_light),
                      !.global_has_tire_damage = OrFlag(@, photo.has_tire)]
    /\ UNCHANGED <<result, jobVars>>

\* lines 203-214, after the last photo; an assessment has at least one photo
CalculateCosts ==
    /\ call.fn = "process_assessment"
    /\ ~result.returned
    /\ Len(call.photos) >= 1
    /\ result' = calculate_costs(call.photos, call.paint_costs_jod,
                                 call.global_has_windshield_damage,
                                 call.global_has_light_damage,
                                 call.global_has_tire_damage,
                                 call.currency_exchange_rate, call.tax_rate,
                                 call.luxury_index, call.country_lux_factor, call.currency)
    /\ UNCHANGED <<call, jobVars>>

\* the photo loop and calculate_costs for assessments of up to MaxCostPhotos photos
SpecCosts == InitCosts /\ [][PhotoCosts \/ CalculateCosts]_vars

\* ================================================================== claims
Terminal == {"completed", "failed"}

\* C1: once the persisted status of the id is 'completed' or 'failed' it never
\* changes again and no field of the row is written afterwards, whatever
\* submits and background runs follow.
C1_TerminalIsFinal ==
    [][rec.status \in Terminal => rec' = rec]_vars

\* C2: within one run, the progress values persisted while the status is
\* 'processing' never decrease and stay within 0..100, for 1 to 10 photos.
C2_ProgressMonotone ==
    [][(/\ rec.status = "processing" /\ rec'.status = "processing"
        /\ "progress" \in DOMAIN rec.metadata /\ "progress" \in DOMAIN rec'.metadata)
       => /\ rec'.metadata.progress >= rec.metadata.progress
          /\ rec'.metadata.progress \in 0 .. PROGRESS_DONE]_vars

\* C3: while the job is running, successive status requests return progress
\* values that never decrease, and no error.
C3_PolledProgressMonotone ==
    [][(/\ polls > 0 /\ polls' = polls + 1
        /\ polled.status = "processing" /\ polled'.status = "processing")
       => /\ polled'.progress >= polled.progress
          /\ polled'.error = <<>>]_vars

\* C4: a run in which the download or the computation of a photo failed never
\* ends with the row 'completed' and a cost computed from the remaining photos.
C4_PhotoFailureFailsJob ==
    \A r \in Runs :
        (run[r].pc = "done" /\ run[r].photo_failed)
        => ~(rec.status = "completed" /\ "estimated_cost" \in DOMAIN rec)

CostColumns == {"estimated_cost", "subtotal_base", "tax_amount", "subtotal_post_tax",
                "luxury_factor", "country_lux_factor", "currency"}

\* C5: a 'completed' row holds the full cost breakdown; a 'failed' row holds no
\* cost and the status endpoint returns none.
C5_CostIffCompleted ==
    /\ rec.status = "completed" => CostColumns \subseteq DOMAIN rec
    /\ rec.status = "failed" =>
          /\ CostColumns \cap DOMAIN rec = {}
          /\ get_assessment_status(rec).estimated_cost = <<>>

\* C6: each detector model is constructed at most once across all runs, and
\* the runs that hold a model hold the same object.
C6_ModelsInitialisedOnce ==
    /\ \A m \in MODEL_PATHS : inits[m] <= 1
    /\ \A r1, r2 \in Runs : \A m \in DOMAIN run[r1].models \cap DOMAIN run[r2].models :
          run[r1].models[m] = run[r2].models[m]

\* C7: a run that has started ends with the persisted status 'completed' or
\* 'failed', never with 'processing', also when a write to the store fails.
C7_RunEndsTerminal ==
    \A r \in Runs : run[r].pc = "done" => rec.status \in Terminal

\* C8: the row shows 'processing' whenever a run is at the photo download or
\* in the photo loop, also when status writes fail.
C8_ProcessingBeforePhotos ==
    \A r \in Runs :
        run[r].pc \in {"download_photos", "upd_photos", "photo"} => rec.status = "processing"

\* C9: when the write of _save_results fails, the run ends with the persisted
\* status 'failed'.
C9_SaveFailureMarksFailed ==
    \A r \in Runs :
        (run[r].pc = "done" /\ run[r].err = "store write failed") => rec.status = "failed"

\* C10: with fewer than the 7 models available the run ends 'failed' with the
\* availability error as the error string, and downloads no photo.
C10_MissingModelsFailJob ==
    \A r \in Runs :
        (run[r].pc = "done" /\ Cardinality(DOMAIN run[r].models) < REQUIRED_MODELS)
        => /\ rec.status = "failed"
           /\ get_assessment_status(rec).error = <<ModelsError(run[r].models)>>
           /\ run[r].paths = 0
           /\ ~run[r].photo_failed

\* C11: an exception inside _generate_and_upload_pdfs never fails the job: the
\* run goes on to _save_results, it reaches the except clause only when the
\* write of _save_results itself raises, and otherwise it ends with the row
\* 'completed' and the cost breakdown stored.
C11_PdfFailureNotFatal ==
    \A r \in Runs :
        run[r].pdf_raised =>
            /\ run[r].pc \in {"upd_save", "save", "upd_done", "done", "except"}
            /\ (run[r].pc = "except" \/ run[r].err # "") => run[r].err = "store write failed"
            /\ rec.status = "failed" => run[r].err = "store write failed"
            /\ (run[r].pc \in {"upd_done", "done"} /\ run[r].err = "")
                  => /\ rec.status = "completed"
                     /\ CostColumns \subseteq DOMAIN rec

C11_Witness ==
    \E r \in Runs :
        /\ run[r].pdf_raised
        /\ run[r].pc = "done"
        /\ rec.status = "completed"
        /\ CostColumns \subseteq DOMAIN rec

\* C12: when the except clause of a run has stored 'failed' for an exception
\* e, the status endpoint returns status 'failed', progress 0 and the message
\* of e as the error, also when that message is empty.
C12_FailedStatusReportsError ==
    [][\A r \in Runs :
          (run[r].pc = "except" /\ run'[r].pc = "done" /\ rec'.status = "failed")
          => /\ get_assessment_status(rec').status = "failed"
             /\ get_assessment_status(rec').progress = 0
             /\ get_assessment_status(rec').error = <<run[r].err>>]_vars

\* ------------------------------------------------ consensus: the match groups
ConsensusReturned == call.fn = "get_multi_model_consensus" /\ result.returned

\* the detections of group g, as indices into all_boxes
Members(g) == {g.matches[k] : k \in 1 .. Len(g.matches)}

GroupsOf(res) == {res.groups[k] : k \in 1 .. Len(res.groups)}

\* IoU(b1, b2) > t, = t, = 0 on the pixel boxes, by cross-multiplication
IoUGreater(b1, b2, t) == Union(b1, b2) > 0 /\ Inter(b1, b2) * t.den > t.num * Union(b1, b2)
IoUEqual(b1, b2, t) == Union(b1, b2) > 0 /\ Inter(b1, b2) * t.den = t.num * Union(b1, b2)
IoUZero(b1, b2) == Inter(b1, b2) = 0

\* C13: every emitted consensus item comes from a match group of at least 2
\* detections, for every input and threshold; a detection whose IoU with every
\* other detection is not above the threshold is in no group that emits an item.
C13_ItemsNeedTwoMembers ==
    ConsensusReturned =>
        /\ \A k \in 1 .. Len(result.consensus) :
              \E g \in GroupsOf(result) :
                 /\ \E n \in 1 .. Len(g.items) : g.items[n] = result.consensus[k]
                 /\ Cardinality(Members(g)) >= 2
        /\ \A g \in GroupsOf(result) : g.items # <<>> => Cardinality(Members(g)) >= 2
        /\ \A i \in 1 .. Len(call.all_boxes) :
              (\A j \in 1 .. Len(call.all_boxes) :
                  j # i => ~IoUGreater(call.all_boxes[i].xyxy, call.all_boxes[j].xyxy,
                                       call.iou_threshold))
              => \A g \in GroupsOf(result) : i \in Members(g) => g.items = <<>>

\* an unmatched detection next to a group of two that emits an item
C13_Witness ==
    /\ ConsensusReturned
    /\ \E g \in GroupsOf(result) : Cardinality(Members(g)) = 1 /\ g.items = <<>>
    /\ \E g \in GroupsOf(result) : Cardinality(Members(g)) = 2 /\ Len(g.items) = 1

\* C14: a match group emits at most one consensus item, of category
\* Windshield if at least 2 members are windshield-labelled, else Light if at
\* least 2 are light-labelled, else Damage; 2 windshield and 2 light members
\* give one Windshield item and no Light item.
C14_OneItemPerGroup ==
    ConsensusReturned =>
        \A g \in GroupsOf(result) :
            LET names == [k \in 1 .. Len(g.matches) |->
                            Lower(call.all_boxes[g.matches[k]].class_name)]
                windshields == Cardinality({k \in DOMAIN names : Contains(WINDSHIELD, names[k])})
                lights == Cardinality({k \in DOMAIN names : Contains(LIGHT, names[k])})
            IN  /\ Len(g.items) <= 1
                /\ windshields >= 2 =>
                      /\ Len(g.items) = 1
                      /\ g.items[1].detected_class = "Windshield"
                /\ (windshields < 2 /\ lights >= 2) =>
                      /\ Len(g.items) = 1
                      /\ g.items[1].detected_class = "Light"
                /\ (windshields < 2 /\ lights < 2 /\ g.items # <<>>) =>
                      g.items[1].detected_class = "Damage"

\* C15: with the configured threshold 0.5, two detections whose boxes do not
\* overlap are never members of the same match group.
C15_DisjointNeverGrouped ==
    (ConsensusReturned /\ call.iou_threshold = IOU_THRESHOLD) =>
        \A g \in GroupsOf(result) : \A a, b \in Members(g) :
            a # b => ~IoUZero(call.all_boxes[a].xyxy, call.all_boxes[b].xyxy)

\* two disjoint boxes in the input, each of them grouped with another box
C15_Witness ==
    /\ ConsensusReturned
    /\ call.iou_threshold = IOU_THRESHOLD
    /\ \E g1, g2 \in GroupsOf(result) :
          /\ g1 # g2
          /\ Cardinality(Members(g1)) >= 2
          /\ Cardinality(Members(g2)) >= 2
          /\ \E a \in Members(g1), b \in Members(g2) :
                IoUZero(call.all_boxes[a].xyxy, call.all_boxes[b].xyxy)

\* C16: the seed of a group takes an unconsumed detection exactly when their
\* IoU is greater than the threshold; at an IoU equal to the threshold it does
\* not take it.
C16_StrictThreshold ==
    ConsensusReturned =>
        \A g \in GroupsOf(result) :
            LET seed == g.matches[1] IN
            \A j \in 1 .. Len(call.all_boxes) :
                (j # seed /\ ~g.used[j]) =>
                    /\ IoUGreater(call.all_boxes[seed].xyxy, call.all_boxes[j].xyxy,
                                  call.iou_threshold)
                          => j \in Members(g)
                    /\ IoUEqual(call.all_boxes[seed].xyxy, call.all_boxes[j].xyxy,
                                call.iou_threshold)
                          => j \notin Members(g)
                    /\ j \in Members(g)
                          => IoUGreater(call.all_boxes[seed].xyxy, call.all_boxes[j].xyxy,
                                        call.iou_threshold)

\* a seed that takes one unconsumed detection and leaves one at IoU = threshold
C16_Witness ==
    /\ ConsensusReturned
    /\ \E g \in GroupsOf(result) :
          \E j, k \in 1 .. Len(call.all_boxes) :
             /\ ~g.used[j] /\ ~g.used[k]
             /\ j \in Members(g) /\ j # g.matches[1]
             /\ k \notin Members(g)
             /\ IoUEqual(call.all_boxes[g.matches[1]].xyxy, call.all_boxes[k].xyxy,
                         call.iou_threshold)

\* the sum of f over the set S of indices
RECURSIVE SumOver(_, _)
SumOver(S, f) == IF S = {} THEN 0
                 ELSE LET x == CHOOSE y \in S : TRUE IN f[x] + SumOver(S \ {x}, f)

\* C17: the box of an emitted item is the coordinate-wise mean of the corners
\* of all members of its group and its confidence the mean of all members'
\* confidences, members of other categories included.
C17_ItemAveragesAllMembers ==
    ConsensusReturned =>
        \A g \in GroupsOf(result) : \A n \in 1 .. Len(g.items) :
            LET item == g.items[n]
                size == Cardinality(Members(g))
            IN  /\ \A c \in 1 .. 4 :
                      item.xyxy[c].sum * size =
                          SumOver(Members(g), [m \in Members(g) |-> call.all_boxes[m].xyxy[c]])
                              * item.xyxy[c].n
                /\ item.conf.sum * size =
                      SumOver(Members(g), [m \in Members(g) |-> call.all_boxes[m].conf])
                          * item.conf.n
                /\ item.conf.n > 0

\* a Windshield item of a group that also holds a member of another label and
\* another box
C17_Witness ==
    /\ ConsensusReturned
    /\ \E g \in GroupsOf(result) :
          /\ Len(g.items) = 1
          /\ g.items[1].is_windshield
          /\ \E m \in Members(g) :
                /\ ~Contains(WINDSHIELD, Lower(call.all_boxes[m].class_name))
                /\ call.all_boxes[m].xyxy # call.all_boxes[g.matches[1]].xyxy

\* ------------------------------------------------------- scale calibration
ScaleReturned == call.fn = "calculate_scale" /\ result.returned

ScaleSources == {"TIRE/WHEEL-BASED (Priority 1)", "HANDLE-BASED (Priority 2)",
                 "LICENSE PLATE-BASED (Priority 3)",
                 "HEADLIGHT-BASED (33 cm fixed - Priority 4)",
                 "FALLBACK (Image width = 1 meter)"}

\* a detection of the list whose label holds one of the words, with a box of
\* positive size and a confidence among confs
HasReference(boxes, words, confs) ==
    \E k \in DOMAIN boxes :
        /\ \E w \in words : Contains(w, Lower(boxes[k].class_name))
        /\ boxes[k].conf \in confs
        /\ Width(boxes[k]) > 0 /\ Height(boxes[k]) > 0

\* the confidences, in hundredths, above and from a threshold on
Above(t) == {c \in 0 .. 100 : c > t}
AtLeast(t) == {c \in 0 .. 100 : c >= t}

\* C18: the source follows the priority tire > handle > license plate >
\* headlight > fallback: with a tire detection above its confidence threshold
\* the source is the tire, whatever else is detected and whatever measurements
\* the request carries; with no tire detection but a handle detection above
\* its threshold the source is the handle; one of the five sources is reported.
C18_ScalePriority ==
    (ScaleReturned /\ ~result.raised) =>
        /\ result.source \in ScaleSources
        /\ HasReference(call.component_res, {WHEEL, TIRE}, Above(conf_th))
              => result.source = "TIRE/WHEEL-BASED (Priority 1)"
        /\ (/\ ~HasReference(call.component_res, {WHEEL, TIRE}, AtLeast(conf_th))
            /\ HasReference(call.handle_res, {HANDLE}, Above(conf_th)))
              => result.source = "HANDLE-BASED (Priority 2)"

\* C19: calculate_scale never raises and the scale it returns is positive, for
\* all detections, reference measurements and image sizes.
C19_ScalePositive ==
    ScaleReturned =>
        /\ ~result.raised
        /\ result.scale_cm_per_px.num * result.scale_cm_per_px.den > 0

\* C20: the confidence thresholds are inclusive: a handle or a wheel/tire
\* detected with confidence exactly 0.5, a headlight with exactly 0.3 and a
\* license plate with exactly 0.65 each count as detected references.
C20_ThresholdsInclusive ==
    (ScaleReturned /\ ~result.raised) =>
        /\ HasReference(call.component_res, {WHEEL, TIRE}, {conf_th})
              => result.tire_detected
        /\ HasReference(call.handle_res, {HANDLE}, {conf_th})
              => result.handle_detected
        /\ HasReference(call.component_res, {LICENSE, PLATE}, {LICENSE_CONF})
              => result.license_detected
        /\ HasReference(call.component_res, {HEADLIGHT}, {HEADLIGHT_CONF})
              => result.headlight_detected

\* C21: when no detection qualifies as a calibration reference (no handle and
\* no wheel/tire at or above 0.5, no plate at or above 0.65, no headlight at or
\* above 0.3), calculate_scale reports the FALLBACK source with a scale of 100
\* divided by the image width in pixels; for a width of 500 that is 0.2 = 1/5.
NoReference ==
    /\ ~HasReference(call.handle_res, {HANDLE}, AtLeast(conf_th))
    /\ ~HasReference(call.component_res, {WHEEL, TIRE}, AtLeast(conf_th))
    /\ ~HasReference(call.component_res, {LICENSE, PLATE}, AtLeast(LICENSE_CONF))
    /\ ~HasReference(call.component_res, {HEADLIGHT}, AtLeast(HEADLIGHT_CONF))

C21_FallbackScale ==
    (ScaleReturned /\ NoReference) =>
        /\ ~result.raised
        /\ result.source = "FALLBACK (Image width = 1 meter)"
        /\ result.scale_cm_per_px.den # 0
        /\ result.scale_cm_per_px.num * call.image_width_px
              = 100 * result.scale_cm_per_px.den
        /\ call.image_width_px = 500
              => 5 * result.scale_cm_per_px.num = result.scale_cm_per_px.den

\* a photo 500 pixels wide with a wheel and a plate below their thresholds
C21_Witness ==
    /\ ScaleReturned /\ NoReference
    /\ call.image_width_px = 500
    /\ Len(call.component_res) = 2
    /\ result.source = "FALLBACK (Image width = 1 meter)"

\* ------------------------------------------------------ paint area and cost
PaintReturned == call.fn = "_calculate_paint_area" /\ result.returned

\* the corners of an item and of a tire box, both times the group size n
ItemCorners(item) == [c \in 1 .. 4 |-> item.xyxy[c].sum]
TireCorners(item, tire_box) == [c \in 1 .. 4 |-> tire_box[c] * item.xyxy[1].n]

GenericItem(item) == ~item.is_windshield /\ ~item.is_light

\* the intersection with some tire box is more than, or exactly, half of the
\* pixel area of the item
OverHalf(item, tire_boxes) ==
    \E k \in DOMAIN tire_boxes :
        2 * Inter(ItemCorners(item), TireCorners(item, tire_boxes[k])) > Area(ItemCorners(item))
ExactlyHalf(item, tire_boxes) ==
    \E k \in DOMAIN tire_boxes :
        2 * Inter(ItemCorners(item), TireCorners(item, tire_boxes[k])) = Area(ItemCorners(item))

\* pixel_area * scale^2 of an item
ItemAreaCm2(item, scale) ==
    Rat(Area(ItemCorners(item)) * scale.num * scale.num,
        item.xyxy[1].n * item.xyxy[1].n * scale.den * scale.den)

\* C22: a generic damage item is excluded from the paint area and sets has_tire
\* exactly when its intersection with some tire box is strictly more than 50%
\* of its pixel area; an item whose intersection is exactly 50% of its area is
\* added to the paint area and does not set has_tire.
C22_TireOverlapStrict ==
    PaintReturned =>
        /\ result.is_photo_tire
              <=> \E k \in DOMAIN call.consensus :
                     /\ GenericItem(call.consensus[k])
                     /\ OverHalf(call.consensus[k], call.tire_boxes)
        /\ (Len(call.consensus) = 1 /\ GenericItem(call.consensus[1])) =>
              LET item == call.consensus[1] IN
              /\ OverHalf(item, call.tire_boxes) <=> result.paint_area = ZERO
              /\ (ExactlyHalf(item, call.tire_boxes) /\ ~OverHalf(item, call.tire_boxes))
                    => /\ result.paint_area = ItemAreaCm2(item, call.scale_cm_per_px)
                       /\ RatLess(ZERO, result.paint_area)
                       /\ ~result.is_photo_tire

\* one generic item that shares exactly half of its area with the wheel
C22_Witness ==
    /\ PaintReturned
    /\ Len(call.consensus) = 1 /\ GenericItem(call.consensus[1])
    /\ ExactlyHalf(call.consensus[1], call.tire_boxes)
    /\ RatLess(ZERO, result.paint_area)
    /\ ~result.is_photo_tire

\* C23: the paint area of a photo is the sum of pixel_area * scale^2 over
\* exactly the generic damage items that are not tire-overlapped; Windshield
\* and Light items add nothing and set has_windshield and has_light; the
\* result is never negative.
C23_PaintAreaSum ==
    PaintReturned =>
        /\ result.paint_area =
              RatSum([k \in DOMAIN call.consensus |->
                        IF /\ GenericItem(call.consensus[k])
                           /\ ~OverHalf(call.consensus[k], call.tire_boxes)
                        THEN ItemAreaCm2(call.consensus[k], call.scale_cm_per_px)
                        ELSE ZERO])
        /\ result.is_photo_windshield
              <=> \E k \in DOMAIN call.consensus : call.consensus[k].is_windshield
        /\ result.is_photo_light
              <=> \E k \in DOMAIN call.consensus : call.consensus[k].is_light
        /\ ~RatLess(result.paint_area, ZERO)

\* a photo with a Light item, a generic item on the wheel and a generic item
\* off it, measured with a negative scale
C23_Witness ==
    /\ PaintReturned
    /\ call.scale_cm_per_px.num < 0
    /\ \E i, j, k \in DOMAIN call.consensus :
          /\ call.consensus[i].is_light
          /\ GenericItem(call.consensus[j]) /\ OverHalf(call.consensus[j], call.tire_boxes)
          /\ GenericItem(call.consensus[k]) /\ ~OverHalf(call.consensus[k], call.tire_boxes)
    /\ RatLess(ZERO, result.paint_area)

\* a wheel of 100 px at 60 cm and one 50 x 50 px generic item off the wheel
PaintExample ==
    /\ PaintReturned
    /\ call.tire_boxes = <<WheelRect>>
    /\ call.scale_cm_per_px = Rat(60, 100)
    /\ Len(call.consensus) = 1
    /\ GenericItem(call.consensus[1])
    /\ ~OverHalf(call.consensus[1], call.tire_boxes)
    /\ call.consensus[1].xyxy = [c \in 1 .. 4 |-> [sum |-> 2 * <<0, 0, 50, 50>>[c], n |-> 2]]

\* 0.019157 * paint_area + 2.093 for a positive area, 0 otherwise
PaintCostFormula ==
    result.paint_cost_photo_jod =
        IF RatLess(ZERO, result.paint_area)
            THEN Rat(19157 * result.paint_area.num + 2093000 * result.paint_area.den,
                     1000000 * result.paint_area.den)
            ELSE ZERO

\* C26 as stated: the per-photo paint cost is 0.019157 * paint_area + 2.093 for
\* a paint area greater than 0 and exactly 0 otherwise; in the example the area
\* is 900 cm2 and the cost 19.2383.
C26_PaintCostAsStated ==
    PaintReturned =>
        /\ PaintCostFormula
        /\ PaintExample => /\ result.paint_area = Float(900)
                           /\ result.paint_cost_photo_jod = Rat(192383, 10000)

\* C26: the per-photo paint cost is 0.019157 * paint_area + 2.093 for a paint
\* area greater than 0 and exactly 0 otherwise, so a photo without billable
\* paint damage adds nothing; in the example the area is 900 cm2 and the cost
\* 0.019157 * 900 + 2.093 = 19.3343.
C26_PaintCost ==
    PaintReturned =>
        /\ PaintCostFormula
        /\ PaintExample => /\ result.paint_area = Float(900)
                           /\ result.paint_cost_photo_jod = Rat(193343, 10000)

\* the example photo, and a photo whose only item lies on the wheel
C26_Witness ==
    /\ PaintExample
    /\ result.paint_cost_photo_jod = Rat(193343, 10000)

\* -------------------------------------------------------------------- costs
CostsReturned == call.fn = "process_assessment" /\ result.returned

\* C24: each component flag passed to calculate_costs is true exactly when at
\* least one photo set that flag, and each flat cost is charged at most once:
\* the light cost is 30 or 0, the windshield cost 50 or 0, the tire cost 20 or
\* 0, however many photos show the component.
C24_FlatCostsOnce ==
    /\ call.fn = "process_assessment" =>
          /\ call.global_has_light_damage
                <=> \E k \in DOMAIN call.photos : call.photos[k].has_light
          /\ call.global_has_windshield_damage
                <=> \E k \in DOMAIN call.photos : call.photos[k].has_windshield
          /\ call.global_has_tire_damage
                <=> \E k \in DOMAIN call.photos : call.photos[k].has_tire
    /\ CostsReturned =>
          /\ result.light_cost_jod =
                IF \E k \in DOMAIN call.photos : call.photos[k].has_light
                    THEN Float(30) ELSE ZERO
          /\ result.windshield_cost_jod =
                IF \E k \in DOMAIN call.photos : call.photos[k].has_windshield
                    THEN Float(50) ELSE ZERO
          /\ result.tire_cost_jod =
                IF \E k \in DOMAIN call.photos : call.photos[k].has_tire
                    THEN Float(20) ELSE ZERO

\* three photos, the first and the last with a light item: one light cost
C24_Witness ==
    /\ CostsReturned
    /\ Len(call.photos) = 3
    /\ call.photos[1].has_light /\ ~call.photos[2].has_light /\ call.photos[3].has_light
    /\ result.light_cost_jod = Float(30)

\* C25: calculate_costs applies sum, currency conversion, tax and luxury in
\* this order: subtotal_base = sum of the per-photo paint costs + flat costs;
\* subtotal_local = subtotal_base * exchange_rate; tax = subtotal_local *
\* tax_rate; post_tax = subtotal_local + tax; final = post_tax * luxury_index *
\* country_lux_factor; every intermediate value is in the returned breakdown;
\* for a light only, paint 0, rate 1, tax 0.1 and factors 1 the values are 30,
\* 30, 3, 33, 33.
C25_CostPipeline ==
    CostsReturned =>
        /\ {"subtotal_jod_base", "subtotal_local_base", "tax_amount_on_base_local",
            "subtotal_post_base_tax", "final_local_cost"} \subseteq DOMAIN result
        /\ result.subtotal_jod_base =
              RatSum([k \in DOMAIN call.paint_costs_jod |-> call.paint_costs_jod[k][3]]
                     \o <<result.light_cost_jod, result.windshield_cost_jod,
                          result.tire_cost_jod>>)
        /\ result.subtotal_local_base =
              RatMul(result.subtotal_jod_base, call.currency_exchange_rate)
        /\ result.tax_amount_on_base_local =
              RatMul(result.subtotal_local_base, call.tax_rate)
        /\ result.subtotal_post_base_tax =
              RatAdd(result.subtotal_local_base, result.tax_amount_on_base_local)
        /\ result.final_local_cost =
              RatMul(result.subtotal_post_base_tax,
                     RatMul(call.luxury_index, call.country_lux_factor))
        /\ (/\ call.global_has_light_damage
            /\ ~call.global_has_windshield_damage /\ ~call.global_has_tire_damage
            /\ result.paint_total_jod = ZERO
            /\ call.currency_exchange_rate = Float(1) /\ call.tax_rate = Rat(1, 10)
            /\ call.luxury_index = Float(1) /\ call.country_lux_factor = Float(1))
              => /\ result.subtotal_jod_base = Float(30)
                 /\ result.subtotal_local_base = Float(30)
                 /\ result.tax_amount_on_base_local = Float(3)
                 /\ result.subtotal_post_base_tax = Float(33)
                 /\ result.final_local_cost = Float(33)

\* an assessment with paint damage, a windshield, a rate of 3/2, a tax of 10%
\* and both luxury factors 2
C25_Witness ==
    /\ CostsReturned
    /\ RatLess(ZERO, result.paint_total_jod)
    /\ call.global_has_windshield_damage
    /\ call.currency_exchange_rate = Rat(3, 2) /\ call.tax_rate = Rat(1, 10)
    /\ call.luxury_index = Float(2) /\ call.country_lux_factor = Float(2)
    /\ RatLess(result.subtotal_post_base_tax, result.final_local_cost)

\* ------------------------------------------------------------- job record
\* C27: no write made by a job run removes a key of the job record that the
\* write does not set: every metadata key present before a call to
\* _update_status or _save_results (customer_name, country, progress, ...) is
\* still present after the call, and customer_name and country keep their
\* values. Stated for the steps of a run in which no store call fails.
C27_WritesKeepMetadata ==
    [][(submitted' = submitted /\ dbFaults' = dbFaults) =>
          /\ \A k \in DOMAIN rec.metadata : k \in DOMAIN rec'.metadata
          /\ \A k \in DOMAIN rec.metadata \cap {"customer_name", "country"} :
                rec'.metadata[k] = rec.metadata[k]]_vars

\* ---------------------------------------------------- consensus: matching
\* the seed of a group and the numbers of its members by label
Seed(g) == g.matches[1]
LabelCount(g, word) ==
    Cardinality({m \in Members(g) : Contains(word, Lower(call.all_boxes[m].class_name))})
OtherCount(g) ==
    Cardinality({m \in Members(g) :
                    /\ ~Contains(WINDSHIELD, Lower(call.all_boxes[m].class_name))
                    /\ ~Contains(LIGHT, Lower(call.all_boxes[m].class_name))})

\* C28: matching is left-to-right and first-match-wins: seeds are taken in
\* input order (each seed is the first detection that no earlier group holds),
\* every detection belongs to at most one group, every non-seed member of a
\* group has IoU greater than the threshold with the seed of that group, and a
\* detection that matches several seeds is in the group of the earliest one.
C28_FirstMatchWins ==
    ConsensusReturned =>
        LET gs == result.groups
            boxes == call.all_boxes
            Earlier(a) == UNION {Members(gs[b]) : b \in 1 .. a - 1}
        IN  \A a \in DOMAIN gs :
               /\ Seed(gs[a]) \notin Earlier(a)
               /\ \A j \in 1 .. Seed(gs[a]) - 1 : j \in Earlier(a)
               /\ Members(gs[a]) \cap Earlier(a) = {}
               /\ \A j \in Members(gs[a]) \ {Seed(gs[a])} :
                     /\ IoUGreater(boxes[Seed(gs[a])].xyxy, boxes[j].xyxy, call.iou_threshold)
                     /\ \A b \in 1 .. a - 1 :
                           ~IoUGreater(boxes[Seed(gs[b])].xyxy, boxes[j].xyxy,
                                       call.iou_threshold)

\* a detection that comes after two seeds and matches both: it is in the group
\* of the first
C28_Witness ==
    /\ ConsensusReturned
    /\ \E a, b \in DOMAIN result.groups :
          /\ a < b
          /\ \E j \in Members(result.groups[a]) :
                /\ j > Seed(result.groups[b])
                /\ IoUGreater(call.all_boxes[Seed(result.groups[b])].xyxy,
                              call.all_boxes[j].xyxy, call.iou_threshold)

\* C29: a match group with at least 2 members emits a generic Damage item
\* exactly when fewer than 2 members are windshield-labelled, fewer than 2 are
\* light-labelled and at least 2 are neither; a group in which no category
\* reaches 2 members emits nothing, and its members are neither seeds nor
\* members of a later group.
C29_DamageItemRule ==
    ConsensusReturned =>
        \A a \in DOMAIN result.groups :
            LET g == result.groups[a]
                windshields == LabelCount(g, WINDSHIELD)
                lights == LabelCount(g, LIGHT)
                others == OtherCount(g)
            IN  Cardinality(Members(g)) >= 2 =>
                   /\ (\E n \in DOMAIN g.items : g.items[n].detected_class = "Damage")
                         <=> (windshields < 2 /\ lights < 2 /\ others >= 2)
                   /\ (windshields < 2 /\ lights < 2 /\ others < 2) =>
                         /\ g.items = <<>>
                         /\ \A b \in DOMAIN result.groups :
                               b > a => Members(result.groups[b]) \cap Members(g) = {}

\* a group of one windshield and one dent that emits nothing, followed by a
\* seed that matches one of its members
C29_Witness ==
    /\ ConsensusReturned
    /\ \E a, b \in DOMAIN result.groups :
          LET g == result.groups[a] IN
          /\ a < b
          /\ Cardinality(Members(g)) = 2
          /\ LabelCount(g, WINDSHIELD) = 1 /\ OtherCount(g) = 1
          /\ g.items = <<>>
          /\ \E j \in Members(g) :
                IoUGreater(call.all_boxes[Seed(result.groups[b])].xyxy,
                           call.all_boxes[j].xyxy, call.iou_threshold)

\* --------------------------------------------------------- rejected submit
\* C30: a submit request rejected by validation (empty assessment_id or empty
\* photo_urls) changes nothing: the job record keeps its status and metadata
\* and no background run is started.
C30_RejectedSubmitChangesNothing ==
    [][(/\ <<call, result>>' # <<call, result>>
        /\ result'.returned
        /\ result'.status_code = 400)
          => /\ rec' = rec
             /\ run' = run
             /\ submitted' = submitted]_vars

\* a request for the id without photo urls, rejected while the run of an
\* earlier accepted request is under way
C30_Witness ==
    /\ result.returned
    /\ call.fn = "process_assessment"
    /\ call.assessment_id = "a1" /\ call.photo_urls = 0
    /\ result.status_code = 400
    /\ rec.status = "processing"
    /\ rec.metadata = [message |-> "Processing started", progress |-> 0]
    /\ run[1].pc = "queued"

====
